---- MODULE Spec2Model ----
(***************************************************************************)
(* Behaviour layer of the Baral Photo Studio site.                         *)
(*                                                                         *)
(*   - booking form: validateFormData, handleFormSubmit and the timers it   *)
(*     starts (src/unnamed/part_000), checked under SpecValidate (one       *)
(*     submit of an arbitrary input) and Spec / FairSpec (submits, edits    *)
(*     and timers interleaved);                                             *)
(*   - category carousel (src/js/main.js, lines 53-179), checked under      *)
(*     SpecCarousel;                                                        *)
(*   - init() and its initializers (part_000), checked under SpecPage;      *)
(*   - debounce(func, wait) (part_000), checked under FairDebounce.         *)
(*                                                                         *)
(* A text value is a sequence of one-character strings; an ISO date        *)
(* "YYYY-MM-DD" is kept as one piece.  Time is counted in ticks of TickMs   *)
(* milliseconds, wall-clock instants in hours since the epoch.             *)
(***************************************************************************)
EXTENDS Integers, Sequences, FiniteSets, TLC

VARIABLES
    fields,        \* values of the form controls firstName .. message
    honeypot,      \* value of the hidden control #company
    utcNow,        \* wall clock: hours since 1970-01-01T00:00Z
    tzOffset,      \* local time zone: local time = UTC + tzOffset hours
    statusText,    \* #formStatus textContent
    statusClass,   \* #formStatus classList restricted to {"success","error"}
    submitTimers,  \* pending setTimeout(resolve, formSubmitDelay): ticks left, oldest first
    clearTimers,   \* pending setTimeout(clearFormStatus, 5000): ticks left, oldest first
    debounceTimer, \* the debounce closure's timeout: ticks left, or NoTimer
    legacyTimers,  \* pending setTimeout(..., 600) of the main.js submit listener: ticks left
    lastEvent,     \* the handler or timer callback that ran last ("tick": time passed)
    innerWidth,    \* window.innerWidth
    itemCount,     \* per category: the number of .carousel-item elements in it
    navActive,     \* the .category-item carrying the class 'active'
    catHidden,     \* per category: .carousel-category has the class 'hidden'
    catActive,     \* per category: .carousel-category has the class 'active'
    trackOffset,   \* per category: translateX of its .carousel-container, in thirds of a percent
    dots,          \* .carousel-dots children in order: TRUE where the dot has the class 'active'
    dotsCategory,  \* the categoryId the dots' click listeners were built with
    loadInterval,  \* the interval kept in autoScrollInterval is running
    extraIntervals,\* intervals started by mouseleave (their handles are dropped)
    hovering,      \* the pointer is inside .carousel-wrapper
    autoRun,       \* [start, len]: active index before, and length of, the current run of auto-advances
    faulty,        \* the initializers whose call throws on this page and browser
    initPc,        \* init(): position of the next call in its try block
    initDone,      \* the initializers that have run to their end
    initLog,       \* what init() has written to the console
    dbWait,        \* debounce: `wait`, in ticks
    dbTimeout,     \* debounce: the closure's `timeout`: ticks left, or NoTimer
    dbArgs,        \* debounce: `args` captured by the pending `later`
    dbLastArgs,    \* the arguments of the latest call of the debounced function
    dbQuiet,       \* ticks since the latest call, counted up to dbWait
    dbCalls,       \* number of calls of the debounced function so far
    dbBursts,      \* number of bursts of calls so far
    dbRuns         \* the arguments func was invoked with, in order

formVars == <<fields, honeypot, utcNow, tzOffset, statusText, statusClass,
              submitTimers, clearTimers, debounceTimer, legacyTimers>>

carouselVars == <<innerWidth, itemCount, navActive, catHidden, catActive, trackOffset,
                  dots, dotsCategory, loadInterval, extraIntervals, hovering, autoRun>>

initVars == <<faulty, initPc, initDone, initLog>>

debounceVars == <<dbWait, dbTimeout, dbArgs, dbLastArgs, dbQuiet, dbCalls, dbBursts, dbRuns>>

vars == <<formVars, carouselVars, initVars, debounceVars, lastEvent>>

----------------------------------------------------------------------------
(* Text helpers *)

Whitespace == {" ", "\t"}

Digits == {"0", "1", "2", "3", "4", "5", "6", "7", "8", "9"}

RECURSIVE TrimLeft(_)
TrimLeft(s) ==
    IF s = <<>> THEN s
    ELSE IF Head(s) \in Whitespace THEN TrimLeft(Tail(s)) ELSE s

RECURSIVE TrimRight(_)
TrimRight(s) ==
    IF s = <<>> THEN s
    ELSE IF s[Len(s)] \in Whitespace THEN TrimRight(SubSeq(s, 1, Len(s) - 1)) ELSE s

\* String.prototype.trim
Trim(s) == TrimRight(TrimLeft(s))

\* phone.replace(/\D/g, '')
IsDigit(c) == c \in Digits

StripNonDigits(s) == SelectSeq(s, IsDigit)

\* one character of the class [^\s@]
EmailChar(c) == c \notin Whitespace /\ c # "@"

AllEmailChars(s, lo, hi) == \A k \in lo..hi : EmailChar(s[k])

----------------------------------------------------------------------------
(* Program constants *)

\* CONFIG.formSubmitDelay, milliseconds
formSubmitDelay == 600

\* the wait given to debounce() in initFormHandling, milliseconds
inputDebounceWait == 300

\* setTimeout(clearFormStatus, 5000), milliseconds
statusClearDelay == 5000

\* isValidPhone: digits.length >= 10
minPhoneDigits == 10

RECURSIVE GCD(_, _)
GCD(a, b) == IF b = 0 THEN a ELSE GCD(b, a % b)

\* One tick of model time: the largest unit that divides every delay.
TickMs == GCD(GCD(formSubmitDelay, inputDebounceWait), statusClearDelay)

Ticks(ms) == ms \div TickMs

NoTimer == -1

----------------------------------------------------------------------------
(* Status messages *)

MsgSpam == "Spam detected."

MsgMissing == "Please fill in all required fields."

MsgBadEmail == "Please enter a valid email address."

MsgBadPhone == "Please enter a valid phone number (minimum 10 digits)."

MsgPastDate == "Please select a date in the future."

MsgSending == "Sending your request..."

MsgSent == "Thank you! Your booking request has been sent. We will contact you shortly."

MsgFailed == "An error occurred. Please try again or contact us directly."

\* the texts of the submit listener in src/js/main.js
LegacyMsgMissing == "Please fill required fields."

LegacyMsgBadEmail == "Invalid email."

LegacyMsgBadPhone == "Invalid phone."

LegacyMsgSending == "Sending..."

----------------------------------------------------------------------------
(* Validation, src/unnamed/part_000 *)

\* /^[^\s@]+@[^\s@]+\.[^\s@]+$/.test(email)
isValidEmail(email) ==
    \E i \in 1..Len(email) : \E j \in 1..Len(email) :
        /\ 1 < i /\ i + 1 < j /\ j < Len(email)
        /\ email[i] = "@"
        /\ email[j] = "."
        /\ AllEmailChars(email, 1, i - 1)
        /\ AllEmailChars(email, i + 1, j - 1)
        /\ AllEmailChars(email, j + 1, Len(email))

\* variant: counts every character, not only the digits
isValidPhone_anyCharacter(phone) == Len(phone) >= minPhoneDigits

isValidPhone(phone) == Len(StripNonDigits(phone)) >= minPhoneDigits

requiredFields == <<"firstName", "lastName", "email", "phone", "date", "serviceType">>

\* The calendar: IsoDates[n] is the date of epoch day n - 1.
IsoDates == <<"1970-01-01", "1970-01-02", "1970-01-03", "1970-01-04">>

EpochDay(iso) == (CHOOSE n \in 1..Len(IsoDates) : IsoDates[n] = iso) - 1

\* new Date("YYYY-MM-DD"): a date-only ISO string is read as midnight UTC.
DateParse(date) == EpochDay(date[1]) * 24

\* today = new Date(); today.setHours(0, 0, 0, 0): local midnight, as an instant.
LocalMidnight(now, tz) == ((now + tz) \div 24) * 24 - tz

Invalid(message) == [isValid |-> FALSE, message |-> message]

Valid == [isValid |-> TRUE, message |-> ""]

\* variant: no trim, so a whitespace-only value counts as filled in
fieldMissing_noTrim(data, field) == data[field] = <<>>

fieldMissing(data, field) == data[field] = <<>> \/ Trim(data[field]) = <<>>

\* variant: the phone rule ahead of the email rule
validateFormData_phoneFirst(data, hp, now, tz) ==
    IF Trim(hp) # <<>> THEN Invalid(MsgSpam)
    ELSE IF \E k \in 1..Len(requiredFields) : data[requiredFields[k]] = <<>>
                                                \/ Trim(data[requiredFields[k]]) = <<>>
        THEN Invalid(MsgMissing)
    ELSE IF Len(StripNonDigits(data.phone)) < minPhoneDigits THEN Invalid(MsgBadPhone)
    ELSE IF ~isValidEmail(data.email) THEN Invalid(MsgBadEmail)
    ELSE IF DateParse(data.date) < LocalMidnight(now, tz) THEN Invalid(MsgPastDate)
    ELSE Valid

\* variant: the honeypot looked at only after the field rules
validateFormData_honeypotLast(data, hp, now, tz) ==
    IF \E k \in 1..Len(requiredFields) : data[requiredFields[k]] = <<>>
                                           \/ Trim(data[requiredFields[k]]) = <<>>
        THEN Invalid(MsgMissing)
    ELSE IF ~isValidEmail(data.email) THEN Invalid(MsgBadEmail)
    ELSE IF Len(StripNonDigits(data.phone)) < minPhoneDigits THEN Invalid(MsgBadPhone)
    ELSE IF DateParse(data.date) < LocalMidnight(now, tz) THEN Invalid(MsgPastDate)
    ELSE IF Trim(hp) # <<>> THEN Invalid(MsgSpam)
    ELSE Valid

validateFormData(data, hp, now, tz) ==
    IF Trim(hp) # <<>> THEN Invalid(MsgSpam)
    ELSE IF \E k \in 1..Len(requiredFields) : fieldMissing(data, requiredFields[k])
        THEN Invalid(MsgMissing)
    ELSE IF ~isValidEmail(data.email) THEN Invalid(MsgBadEmail)
    ELSE IF ~isValidPhone(data.phone) THEN Invalid(MsgBadPhone)
    ELSE IF DateParse(data.date) < LocalMidnight(now, tz) THEN Invalid(MsgPastDate)
    ELSE Valid

----------------------------------------------------------------------------
(* Status display *)

\* variant: the isError argument ignored, every status shown as a success
showFormStatus_alwaysSuccess(message, isError) ==
    [text |-> message, class |-> {"success"}]

showFormStatus(message, isError) ==
    [text |-> message, class |-> IF isError THEN {"error"} ELSE {"success"}]

\* variant: the text emptied, the classes left on the element
clearFormStatus_keepsClass == [text |-> "", class |-> statusClass]

clearFormStatus == [text |-> "", class |-> {}]

\* HTMLFormElement.reset(): every control back to its (empty) default value
EmptyFields ==
    [firstName |-> <<>>, lastName |-> <<>>, email |-> <<>>, phone |-> <<>>,
     date |-> <<>>, serviceType |-> <<>>, message |-> <<>>]

----------------------------------------------------------------------------
(* Bounds and input values *)

\* longest digit run tried as a phone number
MaxDigits == 11

\* most timers (submission and status-clear) pending at once
MaxTimers == 1

DigitTable == <<"0", "1", "2", "3", "4", "5", "6", "7", "8", "9">>

PlainPhone(n) == [i \in 1..n |-> DigitTable[(i % 10) + 1]]

\* "+123-4567..." : n digits and two other characters
FormattedPhone(n) ==
    <<"+">> \o SubSeq(PlainPhone(n), 1, 3) \o <<"-">> \o SubSeq(PlainPhone(n), 4, n)

GoodEmail == <<"a", "@", "b", ".", "c">>

FirstNames == {<<>>, <<" ">>, <<"A">>}

LastNames == {<<>>, <<"B">>}

Emails == {<<>>, <<" ">>, GoodEmail, <<"a", "@", "b">>}

PhoneValues ==
    {<<>>, <<" ">>, PlainPhone(5)}
        \cup {PlainPhone(n) : n \in (minPhoneDigits - 1)..MaxDigits}
        \cup {FormattedPhone(n) : n \in (minPhoneDigits - 1)..MaxDigits}

DateValues == {<<>>} \cup {<<IsoDates[n]>> : n \in 1..Len(IsoDates)}

ServiceTypes == {<<>>, <<"w">>}

Messages == {<<>>, <<"h", "i">>}

HoneypotValues == {<<>>, <<" ">>, <<"b", "o", "t">>}

\* 1970-01-02 01:00Z and 22:00Z
ClockValues == {25, 46}

TimeZones == {-5, 0, 5}

InputSpace ==
    [firstName : FirstNames, lastName : LastNames, email : Emails, phone : PhoneValues,
     date : DateValues, serviceType : ServiceTypes, message : Messages]

GoodFields ==
    [firstName |-> <<"A">>, lastName |-> <<"B">>, email |-> GoodEmail,
     phone |-> FormattedPhone(minPhoneDigits), date |-> <<IsoDates[Len(IsoDates)]>>,
     serviceType |-> <<"w">>, message |-> <<>>]

\* What a burst of edits can leave in the form: [f |-> fields, h |-> honeypot]
FormSamples ==
    { [f |-> GoodFields, h |-> <<>>],
      [f |-> GoodFields, h |-> <<"b", "o", "t">>],
      [f |-> EmptyFields, h |-> <<>>],
      [f |-> [GoodFields EXCEPT !.email = <<"a", "@", "b">>], h |-> <<>>],
      [f |-> [GoodFields EXCEPT !.date = <<IsoDates[1]>>], h |-> <<>>] }

----------------------------------------------------------------------------
(* Form handlers, src/unnamed/part_000 *)

SetStatus(st) ==
    /\ statusText' = st.text
    /\ statusClass' = st.class

\* handleFormSubmit up to its return or its await
handleFormSubmit ==
    LET validation == validateFormData(fields, honeypot, utcNow, tzOffset) IN
    /\ \/ /\ ~validation.isValid
          /\ SetStatus(showFormStatus(validation.message, TRUE))
          /\ lastEvent' = "submitInvalid"
          /\ UNCHANGED submitTimers
       \/ /\ validation.isValid
          /\ Len(submitTimers) + Len(clearTimers) + Len(legacyTimers) < MaxTimers
          /\ SetStatus(showFormStatus(MsgSending, FALSE))
          /\ submitTimers' = Append(submitTimers, Ticks(formSubmitDelay))
          /\ lastEvent' = "submitValid"
    /\ UNCHANGED <<fields, honeypot, utcNow, tzOffset, clearTimers, debounceTimer>>
    /\ UNCHANGED <<legacyTimers, carouselVars, initVars, debounceVars>>

\* the submit listener of src/js/main.js (the second script of that file), up
\* to its return or its setTimeout: the same rules without the date rule, the
\* text fields trimmed when they are read
bookingFormSubmit ==
    LET data == [firstName |-> Trim(fields.firstName), lastName |-> Trim(fields.lastName),
                 email |-> Trim(fields.email), phone |-> Trim(fields.phone),
                 date |-> fields.date, serviceType |-> fields.serviceType,
                 message |-> Trim(fields.message)]
        reject(text) == /\ statusText' = text
                        /\ statusClass' = statusClass \cup {"error"}
                        /\ lastEvent' = "legacyInvalid"
                        /\ UNCHANGED legacyTimers
    IN
    /\ IF Trim(honeypot) # <<>>
          THEN /\ statusText' = MsgSpam
               /\ lastEvent' = "legacyInvalid"
               /\ UNCHANGED <<statusClass, legacyTimers>>
       ELSE IF \E k \in 1..Len(requiredFields) : data[requiredFields[k]] = <<>>
          THEN reject(LegacyMsgMissing)
       ELSE IF ~isValidEmail(data.email)
          THEN reject(LegacyMsgBadEmail)
       ELSE IF Len(StripNonDigits(data.phone)) < minPhoneDigits
          THEN reject(LegacyMsgBadPhone)
       ELSE /\ Len(submitTimers) + Len(clearTimers) + Len(legacyTimers) < MaxTimers
            /\ statusText' = LegacyMsgSending
            /\ statusClass' = statusClass \ {"error"}
            /\ legacyTimers' = Append(legacyTimers, Ticks(formSubmitDelay))
            /\ lastEvent' = "legacyValid"
    /\ UNCHANGED <<fields, honeypot, utcNow, tzOffset, submitTimers, clearTimers, debounceTimer>>
    /\ UNCHANGED <<carouselVars, initVars, debounceVars>>

\* variant: the success branch without DOM.bookingForm.reset()
submitResolved_noReset ==
    /\ submitTimers # <<>>
    /\ Head(submitTimers) = 0
    /\ submitTimers' = Tail(submitTimers)
    /\ SetStatus([text |-> MsgSent, class |-> {"success"}])
    /\ clearTimers' = Append(clearTimers, Ticks(statusClearDelay))
    /\ lastEvent' = "sent"
    /\ UNCHANGED <<fields, honeypot, utcNow, tzOffset, debounceTimer>>
    /\ UNCHANGED <<legacyTimers, carouselVars, initVars, debounceVars>>

\* handleFormSubmit after the await: the submission timer has resolved the promise
submitResolved ==
    /\ submitTimers # <<>>
    /\ Head(submitTimers) = 0
    /\ submitTimers' = Tail(submitTimers)
    /\ SetStatus(showFormStatus(MsgSent, FALSE))
    /\ fields' = EmptyFields
    /\ honeypot' = <<>>
    /\ clearTimers' = Append(clearTimers, Ticks(statusClearDelay))
    /\ lastEvent' = "sent"
    /\ UNCHANGED <<utcNow, tzOffset, debounceTimer>>
    /\ UNCHANGED <<legacyTimers, carouselVars, initVars, debounceVars>>

\* setTimeout(clearFormStatus, 5000) fires
statusClearFires ==
    /\ clearTimers # <<>>
    /\ Head(clearTimers) = 0
    /\ clearTimers' = Tail(clearTimers)
    /\ SetStatus(clearFormStatus)
    /\ lastEvent' = "statusCleared"
    /\ UNCHANGED <<fields, honeypot, utcNow, tzOffset, submitTimers, debounceTimer>>
    /\ UNCHANGED <<legacyTimers, carouselVars, initVars, debounceVars>>

\* 'input' events on the form: the edits leave the form as `sample`, and the
\* debounced listener restarts its timer
formInput(sample) ==
    /\ fields' = sample.f
    /\ honeypot' = sample.h
    /\ debounceTimer' = Ticks(inputDebounceWait)
    /\ lastEvent' = "input"
    /\ UNCHANGED <<utcNow, tzOffset, statusText, statusClass, submitTimers, clearTimers>>
    /\ UNCHANGED <<legacyTimers, carouselVars, initVars, debounceVars>>

\* the debounced listener runs: clear the status if it shows an error
inputQuiet ==
    /\ debounceTimer = 0
    /\ debounceTimer' = NoTimer
    /\ IF "error" \in statusClass
          THEN SetStatus(clearFormStatus) /\ lastEvent' = "errorCleared"
          ELSE UNCHANGED <<statusText, statusClass>> /\ lastEvent' = "inputQuiet"
    /\ UNCHANGED <<fields, honeypot, utcNow, tzOffset, submitTimers, clearTimers>>
    /\ UNCHANGED <<legacyTimers, carouselVars, initVars, debounceVars>>

TimerDue ==
    \/ debounceTimer = 0
    \/ \E k \in 1..Len(submitTimers) : submitTimers[k] = 0
    \/ \E k \in 1..Len(clearTimers) : clearTimers[k] = 0

TimerPending == debounceTimer # NoTimer \/ submitTimers # <<>> \/ clearTimers # <<>>

\* TickMs milliseconds pass and no timer is due
Tick ==
    /\ TimerPending
    /\ ~TimerDue
    /\ submitTimers' = [k \in 1..Len(submitTimers) |-> submitTimers[k] - 1]
    /\ clearTimers' = [k \in 1..Len(clearTimers) |-> clearTimers[k] - 1]
    /\ debounceTimer' = IF debounceTimer = NoTimer THEN NoTimer ELSE debounceTimer - 1
    /\ lastEvent' = "tick"
    /\ UNCHANGED <<fields, honeypot, utcNow, tzOffset, statusText, statusClass>>
    /\ UNCHANGED <<legacyTimers, carouselVars, initVars, debounceVars>>

----------------------------------------------------------------------------
(* Category carousel, src/js/main.js *)

\* window.innerWidth >= 768
desktopWidth == 768

\* most carousel items in one category
MaxItems == 7

\* most auto-scroll intervals started by mouseleave
MaxIntervals == 1

\* the .carousel-category elements, in document order
Categories == <<"wedding", "portrait">>

CategoryIds == {Categories[k] : k \in 1..Len(Categories)}

ViewportWidths == {375, desktopWidth - 1, desktopWidth}

\* window.innerWidth >= 768 ? 3 : 1
itemsPerPage(width) == IF width >= desktopWidth THEN 3 ELSE 1

\* variant: the quotient rounded down
pageCount_floor(items, perPage) == items \div perPage

\* Math.ceil(carouselItems.length / itemsPerPage)
pageCount(items, perPage) ==
    IF items % perPage = 0 THEN items \div perPage ELSE (items \div perPage) + 1

\* the dots initCarouselDots(categoryId) leaves in .carousel-dots when the window
\* is `width` wide: pageCount dots, dot 0 active
initCarouselDots(categoryId, width) ==
    [i \in 1..pageCount(itemCount[categoryId], itemsPerPage(width)) |-> i = 1]

\* variant: the step of a three-item page at every width
slidePercentage_thirdsOnly(index, perPage) == -(index * 100)

\* -(index * (100 / itemsPerPage)), in thirds of a percent
slidePercentage(index, perPage) == -(index * (300 \div perPage))

\* moveCarousel(categoryId, index): the new transforms
moveCarousel(categoryId, index) ==
    [trackOffset EXCEPT ![categoryId] = slidePercentage(index, itemsPerPage(innerWidth))]

\* updateActiveDot(index): dataset.index counts from 0
updateActiveDot(index) == [i \in 1..Len(dots) |-> i - 1 = index]

\* autoScrollCarousel's scan: the index of the last active dot, 0 when there is none
scanActiveIndex ==
    IF \E i \in 1..Len(dots) : dots[i]
        THEN (CHOOSE i \in 1..Len(dots) : dots[i] /\ \A j \in (i + 1)..Len(dots) : ~dots[j]) - 1
        ELSE 0

\* variant: the step without the wraparound
nextIndex_noWrap(activeIndex, dotCount) == activeIndex + 1

\* (activeIndex + 1) % dots.length
nextIndex(activeIndex, dotCount) == (activeIndex + 1) % dotCount

\* document.querySelector('.carousel-category.active'): the first one in document order
HasActiveCategory == \E k \in 1..Len(Categories) : catActive[Categories[k]]

activeCategory ==
    Categories[CHOOSE k \in 1..Len(Categories) :
                  catActive[Categories[k]] /\ \A j \in 1..(k - 1) : ~catActive[Categories[j]]]

NoRun(index) == [start |-> index, len |-> 0]

\* variant: the category switch without the reset of the container's transform
categoryClick_keepsOffset(c) ==
    /\ navActive' = c
    /\ catHidden' = [x \in CategoryIds |-> x # c]
    /\ catActive' = [catActive EXCEPT ![c] = TRUE]
    /\ dots' = initCarouselDots(c, innerWidth)
    /\ dotsCategory' = c
    /\ autoRun' = NoRun(0)
    /\ lastEvent' = "categoryClick"
    /\ UNCHANGED <<innerWidth, itemCount, loadInterval, extraIntervals, hovering, trackOffset>>
    /\ UNCHANGED <<formVars, initVars, debounceVars>>

\* click on the .category-item of category c
categoryClick(c) ==
    /\ navActive' = c
    /\ catHidden' = [x \in CategoryIds |-> x # c]
    /\ catActive' = [catActive EXCEPT ![c] = TRUE]
    /\ trackOffset' = [trackOffset EXCEPT ![c] = 0]
    /\ dots' = initCarouselDots(c, innerWidth)
    /\ dotsCategory' = c
    /\ autoRun' = NoRun(0)
    /\ lastEvent' = "categoryClick"
    /\ UNCHANGED <<innerWidth, itemCount, loadInterval, extraIntervals, hovering>>
    /\ UNCHANGED <<formVars, initVars, debounceVars>>

\* click on dot i (counted from 0)
dotClick(i) ==
    /\ i \in 0..(Len(dots) - 1)
    /\ trackOffset' = moveCarousel(dotsCategory, i)
    /\ dots' = updateActiveDot(i)
    /\ autoRun' = NoRun(i)
    /\ lastEvent' = "dotClick"
    /\ UNCHANGED <<innerWidth, itemCount, navActive, catHidden, catActive, dotsCategory,
                   loadInterval, extraIntervals, hovering>>
    /\ UNCHANGED <<formVars, initVars, debounceVars>>

\* an auto-scroll interval fires: autoScrollCarousel()
autoScrollCarousel ==
    /\ loadInterval \/ extraIntervals > 0
    /\ IF HasActiveCategory /\ Len(dots) # 0
          THEN LET activeIndex == nextIndex(scanActiveIndex, Len(dots)) IN
               /\ trackOffset' = moveCarousel(activeCategory, activeIndex)
               /\ dots' = updateActiveDot(activeIndex)
               /\ autoRun' = IF autoRun.len < Len(dots)
                                THEN [autoRun EXCEPT !.len = @ + 1]
                                ELSE [start |-> scanActiveIndex, len |-> 1]
               /\ lastEvent' = "autoScroll"
          ELSE UNCHANGED <<trackOffset, dots, autoRun, lastEvent>>
    /\ UNCHANGED <<innerWidth, itemCount, navActive, catHidden, catActive, dotsCategory,
                   loadInterval, extraIntervals, hovering>>
    /\ UNCHANGED <<formVars, initVars, debounceVars>>

\* mouseenter on .carousel-wrapper: clearInterval(autoScrollInterval)
mouseEnter ==
    /\ ~hovering
    /\ hovering' = TRUE
    /\ loadInterval' = FALSE
    /\ lastEvent' = "mouseEnter"
    /\ autoRun' = NoRun(scanActiveIndex)
    /\ UNCHANGED <<innerWidth, itemCount, navActive, catHidden, catActive, trackOffset,
                   dots, dotsCategory, extraIntervals>>
    /\ UNCHANGED <<formVars, initVars, debounceVars>>

\* mouseleave on .carousel-wrapper: setInterval(autoScrollCarousel, 5000)
mouseLeave ==
    /\ hovering
    /\ extraIntervals < MaxIntervals
    /\ hovering' = FALSE
    /\ extraIntervals' = extraIntervals + 1
    /\ lastEvent' = "mouseLeave"
    /\ autoRun' = NoRun(scanActiveIndex)
    /\ UNCHANGED <<innerWidth, itemCount, navActive, catHidden, catActive, trackOffset,
                   dots, dotsCategory, loadInterval>>
    /\ UNCHANGED <<formVars, initVars, debounceVars>>

\* window resize to width w
windowResize(w) ==
    /\ w # innerWidth
    /\ innerWidth' = w
    /\ IF HasActiveCategory
          THEN /\ dots' = initCarouselDots(activeCategory, w)
               /\ dotsCategory' = activeCategory
          ELSE UNCHANGED <<dots, dotsCategory>>
    /\ autoRun' = NoRun(0)
    /\ lastEvent' = "resize"
    /\ UNCHANGED <<itemCount, navActive, catHidden, catActive, trackOffset,
                   loadInterval, extraIntervals, hovering>>
    /\ UNCHANGED <<formVars, initVars, debounceVars>>

----------------------------------------------------------------------------
(* Page initialization: init(), src/unnamed/part_000 *)

\* the calls in init()'s try block, in order
Initializers == <<"initNavigation", "initScrollEffects", "initScrollAnimations",
                  "initPortfolioFilter", "initFormHandling", "initAccessibility",
                  "initLazyLoading", "updateFooterYear">>

InitializerSet == {Initializers[k] : k \in 1..Len(Initializers)}

\* initPc when init() has returned
InitReturned == Len(Initializers) + 2

\* the next call in the try block returns normally
initCall ==
    /\ initPc \in 1..Len(Initializers)
    /\ Initializers[initPc] \notin faulty
    /\ initDone' = initDone \cup {Initializers[initPc]}
    /\ initPc' = initPc + 1
    /\ lastEvent' = "initCall"
    /\ UNCHANGED <<faulty, initLog>>
    /\ UNCHANGED <<formVars, carouselVars, debounceVars>>

\* the next call throws: control goes to the catch clause, console.error, return
initCatch ==
    /\ initPc \in 1..Len(Initializers)
    /\ Initializers[initPc] \in faulty
    /\ initLog' = "Initialization error:"
    /\ initPc' = InitReturned
    /\ lastEvent' = "initCatch"
    /\ UNCHANGED <<faulty, initDone>>
    /\ UNCHANGED <<formVars, carouselVars, debounceVars>>

\* the end of the try block: console.log('... loaded successfully')
initLoaded ==
    /\ initPc = Len(Initializers) + 1
    /\ initLog' = "loaded successfully"
    /\ initPc' = InitReturned
    /\ lastEvent' = "initLoaded"
    /\ UNCHANGED <<faulty, initDone>>
    /\ UNCHANGED <<formVars, carouselVars, debounceVars>>

----------------------------------------------------------------------------
(* debounce(func, wait), src/unnamed/part_000 *)

\* CONFIG.debounceDelay, the default of `wait`
debounceDelay == 100

\* most calls of the debounced function
MaxCalls == 3

\* the argument lists the debounced function is called with
DebounceArgs == {<<"a">>, <<"b">>, <<>>}

\* variant: a call leaves a pending timeout, and the `later` behind it, in place
executedFunction_keepsTimer(args) ==
    /\ dbCalls < MaxCalls
    /\ dbTimeout' = IF dbTimeout = NoTimer THEN dbWait ELSE dbTimeout
    /\ dbArgs' = IF dbTimeout = NoTimer THEN args ELSE dbArgs
    /\ dbLastArgs' = args
    /\ dbQuiet' = 0
    /\ dbCalls' = dbCalls + 1
    /\ dbBursts' = IF dbTimeout = NoTimer THEN dbBursts + 1 ELSE dbBursts
    /\ lastEvent' = "debounceCall"
    /\ UNCHANGED <<dbWait, dbRuns>>
    /\ UNCHANGED <<formVars, carouselVars, initVars>>

\* a call executedFunction(...args): clearTimeout(timeout); timeout = setTimeout(later, wait),
\* `later` keeping the args of this call
executedFunction(args) ==
    /\ dbCalls < MaxCalls
    /\ dbTimeout' = dbWait
    /\ dbArgs' = args
    /\ dbLastArgs' = args
    /\ dbQuiet' = 0
    /\ dbCalls' = dbCalls + 1
    /\ dbBursts' = IF dbTimeout = NoTimer THEN dbBursts + 1 ELSE dbBursts
    /\ lastEvent' = "debounceCall"
    /\ UNCHANGED <<dbWait, dbRuns>>
    /\ UNCHANGED <<formVars, carouselVars, initVars>>

\* the timeout fires: later() clears the handle and calls func(...args)
later ==
    /\ dbTimeout = 0
    /\ dbTimeout' = NoTimer
    /\ dbRuns' = Append(dbRuns, dbArgs)
    /\ lastEvent' = "debounceRun"
    /\ UNCHANGED <<dbWait, dbArgs, dbLastArgs, dbQuiet, dbCalls, dbBursts>>
    /\ UNCHANGED <<formVars, carouselVars, initVars>>

\* TickMs pass while the timeout is pending and not yet due
debounceTick ==
    /\ dbTimeout > 0
    /\ dbTimeout' = dbTimeout - 1
    /\ dbQuiet' = IF dbQuiet < dbWait THEN dbQuiet + 1 ELSE dbQuiet
    /\ lastEvent' = "tick"
    /\ UNCHANGED <<dbWait, dbArgs, dbLastArgs, dbCalls, dbBursts, dbRuns>>
    /\ UNCHANGED <<formVars, carouselVars, initVars>>

----------------------------------------------------------------------------
(* Specifications *)

InitStatus ==
    /\ statusText = ""
    /\ statusClass = {}
    /\ submitTimers = <<>>
    /\ clearTimers = <<>>
    /\ debounceTimer = NoTimer
    /\ legacyTimers = <<>>
    /\ lastEvent = "load"

\* the page as loaded: 'wedding' shown and active, its dots built, auto-scroll running
InitCarousel ==
    /\ navActive = Categories[1]
    /\ catHidden = [x \in CategoryIds |-> x # Categories[1]]
    /\ catActive = [x \in CategoryIds |-> x = Categories[1]]
    /\ trackOffset = [x \in CategoryIds |-> 0]
    /\ dots = initCarouselDots(Categories[1], innerWidth)
    /\ dotsCategory = Categories[1]
    /\ loadInterval = TRUE
    /\ extraIntervals = 0
    /\ hovering = FALSE
    /\ autoRun = NoRun(0)

\* init() has run to its end without a fault
InitLoaded ==
    /\ faulty = {}
    /\ initPc = InitReturned
    /\ initDone = InitializerSet
    /\ initLog = "loaded successfully"

\* a closure fresh from debounce(func, wait): `timeout` undefined, no call yet
InitDebounce ==
    /\ dbTimeout = NoTimer
    /\ dbArgs = <<>>
    /\ dbLastArgs = <<>>
    /\ dbQuiet = 0
    /\ dbCalls = 0
    /\ dbBursts = 0
    /\ dbRuns = <<>>

InitForm ==
    /\ utcNow = 36
    /\ tzOffset = 0
    /\ InitStatus
    /\ InitLoaded
    /\ dbWait = Ticks(debounceDelay)
    /\ InitDebounce

\* Submits of any input, at any time of day in any time zone, to either listener.
InitValidate ==
    /\ fields \in InputSpace
    /\ honeypot \in HoneypotValues
    /\ utcNow \in ClockValues
    /\ tzOffset \in TimeZones
    /\ InitStatus
    /\ InitLoaded
    /\ dbWait = Ticks(debounceDelay)
    /\ InitDebounce
    /\ innerWidth = desktopWidth
    /\ itemCount = [x \in CategoryIds |-> MaxItems]
    /\ InitCarousel

NextValidate == handleFormSubmit \/ bookingFormSubmit

SpecValidate == InitValidate /\ [][NextValidate]_vars

\* The submission sequencer: submits, edits and timers in any order.
Init ==
    /\ \E s \in FormSamples : fields = s.f /\ honeypot = s.h
    /\ InitForm
    /\ innerWidth = desktopWidth
    /\ itemCount = [x \in CategoryIds |-> MaxItems]
    /\ InitCarousel

Next ==
    \/ handleFormSubmit
    \/ submitResolved
    \/ statusClearFires
    \/ \E s \in FormSamples : formInput(s)
    \/ inputQuiet
    \/ Tick

Spec == Init /\ [][Next]_vars

\* Timers fire when due, and time passes.
FairSpec ==
    /\ Spec
    /\ WF_vars(Tick)
    /\ WF_vars(submitResolved)
    /\ WF_vars(statusClearFires)
    /\ WF_vars(inputQuiet)

\* The carousel: any item counts, any viewport, events in any order.
InitCarouselAny ==
    /\ innerWidth \in ViewportWidths
    /\ itemCount \in [CategoryIds -> 0..MaxItems]
    /\ InitCarousel
    /\ fields = EmptyFields
    /\ honeypot = <<>>
    /\ InitForm

NextCarousel ==
    \/ \E c \in CategoryIds : categoryClick(c)
    \/ \E i \in 0..MaxItems : dotClick(i)
    \/ autoScrollCarousel
    \/ mouseEnter
    \/ mouseLeave
    \/ \E w \in ViewportWidths : windowResize(w)

SpecCarousel == InitCarouselAny /\ [][NextCarousel]_vars

\* init() on any page and browser: each initializer may be one that throws.
InitPage ==
    /\ faulty \in SUBSET InitializerSet
    /\ initPc = 1
    /\ initDone = {}
    /\ initLog = ""
    /\ fields = EmptyFields
    /\ honeypot = <<>>
    /\ utcNow = 36
    /\ tzOffset = 0
    /\ InitStatus
    /\ innerWidth = desktopWidth
    /\ itemCount = [x \in CategoryIds |-> MaxItems]
    /\ InitCarousel
    /\ dbWait = Ticks(debounceDelay)
    /\ InitDebounce

NextPage == initCall \/ initCatch \/ initLoaded

SpecPage == InitPage /\ [][NextPage]_vars

\* One debounced function: calls with any arguments at any time, its timeout, and time.
InitDebounceAny ==
    /\ dbWait \in {Ticks(debounceDelay), Ticks(inputDebounceWait)}
    /\ InitDebounce
    /\ InitLoaded
    /\ fields = EmptyFields
    /\ honeypot = <<>>
    /\ utcNow = 36
    /\ tzOffset = 0
    /\ InitStatus
    /\ innerWidth = desktopWidth
    /\ itemCount = [x \in CategoryIds |-> MaxItems]
    /\ InitCarousel

NextDebounce ==
    \/ \E args \in DebounceArgs : executedFunction(args)
    \/ later
    \/ debounceTick

SpecDebounce == InitDebounceAny /\ [][NextDebounce]_vars

\* The timeout fires when due, and time passes.
FairDebounce ==
    /\ SpecDebounce
    /\ WF_vars(debounceTick)
    /\ WF_vars(later)

----------------------------------------------------------------------------
(* The validation rules as the specification words them *)

\* a submit handled by handleFormSubmit (part_000), by either listener
SubmittedHere == lastEvent \in {"submitInvalid", "submitValid"}

Submitted == SubmittedHere \/ lastEvent \in {"legacyInvalid", "legacyValid"}

ShownError(message) == statusText = message /\ statusClass = {"error"}

\* the reason code of the status shown
Reason ==
    CASE statusText = MsgSpam -> "Spam"
      [] statusText \in {MsgMissing, LegacyMsgMissing} -> "MissingField"
      [] statusText \in {MsgBadEmail, LegacyMsgBadEmail} -> "BadEmail"
      [] statusText \in {MsgBadPhone, LegacyMsgBadPhone} -> "BadPhone"
      [] statusText = MsgPastDate -> "PastDate"
      [] statusText \in {MsgSending, LegacyMsgSending} -> "Sending"
      [] OTHER -> "other"

Blank(s) == \A k \in 1..Len(s) : s[k] \in Whitespace

HoneypotViolated == ~Blank(honeypot)

RequiredViolated ==
    \E f \in {"firstName", "lastName", "email", "phone", "date", "serviceType"} :
        Blank(fields[f])

EmailViolated == ~isValidEmail(fields.email)

DigitCount(s) == Cardinality({k \in 1..Len(s) : s[k] \in Digits})

PhoneViolated == DigitCount(fields.phone) < minPhoneDigits

\* the local calendar day, counted from the epoch
LocalToday == (utcNow + tzOffset) \div 24

DateViolated == fields.date # <<>> /\ EpochDay(fields.date[1]) < LocalToday

\* the earliest violated rule among the first four, "none" when they all pass
FirstViolation ==
    CASE HoneypotViolated -> "Spam"
      [] ~HoneypotViolated /\ RequiredViolated -> "MissingField"
      [] ~HoneypotViolated /\ ~RequiredViolated /\ EmailViolated -> "BadEmail"
      [] ~HoneypotViolated /\ ~RequiredViolated /\ ~EmailViolated /\ PhoneViolated
            -> "BadPhone"
      [] OTHER -> "none"

RulesViolated ==
    (IF HoneypotViolated THEN 1 ELSE 0) + (IF RequiredViolated THEN 1 ELSE 0)
        + (IF EmailViolated THEN 1 ELSE 0) + (IF PhoneViolated THEN 1 ELSE 0)
        + (IF DateViolated THEN 1 ELSE 0)

\* C1: a submit whose input violates a rule shows the reason of the earliest
\* violated rule in the order honeypot, required fields, email, phone, date,
\* whatever the later rules say of the input; the date reason or the sending
\* status is shown only when the first four rules pass.
C1_FirstViolatedRuleReported ==
    Submitted =>
        /\ FirstViolation # "none" => Reason = FirstViolation
        /\ FirstViolation = "none" => Reason \in {"PastDate", "Sending"}
        /\ (SubmittedHere /\ FirstViolation = "none" /\ DateViolated) => ShownError(MsgPastDate)
        /\ (SubmittedHere /\ FirstViolation # "none") => statusClass = {"error"}

\* an input violating the email, phone and date rules at once is reported as a bad email
C1_Witness ==
    /\ SubmittedHere
    /\ ~HoneypotViolated /\ ~RequiredViolated
    /\ EmailViolated /\ PhoneViolated /\ DateViolated
    /\ ShownError(MsgBadEmail)

\* C2: a submit with a honeypot value that is non-empty after trimming shows
\* 'Spam detected.', whatever the other fields hold, and neither shows the
\* sending status nor starts a submission.
C2_HoneypotIsSpam ==
    (Submitted /\ HoneypotViolated) =>
        /\ statusText = MsgSpam
        /\ SubmittedHere => statusClass = {"error"}
        /\ submitTimers = <<>> /\ legacyTimers = <<>>
        /\ lastEvent \in {"submitInvalid", "legacyInvalid"}

\* spam is reported for an input that violates no other rule
C2_Witness ==
    /\ SubmittedHere
    /\ HoneypotViolated
    /\ RulesViolated = 1
    /\ ShownError(MsgSpam)

\* C3: with an empty honeypot, a blank (empty or whitespace-only) required
\* field gives the missing-field reason whatever the other fields hold, and
\* that reason is shown only when one of the six required fields is blank:
\* never on account of the message field.
C3_BlankRequiredIsMissing ==
    Submitted =>
        /\ (~HoneypotViolated /\ RequiredViolated) => Reason = "MissingField"
        /\ (SubmittedHere /\ ~HoneypotViolated /\ RequiredViolated) => ShownError(MsgMissing)
        /\ Reason = "MissingField" => RequiredViolated

\* a whitespace-only first name, with a bad email and a short phone besides
C3_Witness ==
    /\ SubmittedHere
    /\ fields.firstName = <<" ">>
    /\ \A f \in {"lastName", "email", "phone", "date", "serviceType"} : ~Blank(fields[f])
    /\ EmailViolated /\ PhoneViolated
    /\ fields.message = <<>>
    /\ ShownError(MsgMissing)

\* C4 (as claimed): for an input that passes the first four rules, the date is
\* accepted exactly when it is on or after today's local date.
C4_DateAcceptedIffNotPast ==
    (SubmittedHere /\ FirstViolation = "none") =>
        /\ EpochDay(fields.date[1]) >= LocalToday <=> statusText = MsgSending
        /\ EpochDay(fields.date[1]) < LocalToday <=> ShownError(MsgPastDate)

\* C5: for an input that passes the honeypot, required-field and email rules,
\* the phone reason is shown exactly when the phone holds fewer than 10 digit
\* characters, whatever else it holds.
C5_PhoneRejectedIffFewDigits ==
    (Submitted /\ ~(HoneypotViolated \/ RequiredViolated \/ EmailViolated)) =>
        /\ Reason = "BadPhone" <=> DigitCount(fields.phone) < minPhoneDigits
        /\ (SubmittedHere /\ Reason = "BadPhone") => ShownError(MsgBadPhone)

\* eleven characters of which nine are digits: rejected
C5_Witness ==
    /\ SubmittedHere
    /\ ~(HoneypotViolated \/ RequiredViolated \/ EmailViolated)
    /\ Len(fields.phone) > minPhoneDigits
    /\ DigitCount(fields.phone) = minPhoneDigits - 1
    /\ ShownError(MsgBadPhone)

----------------------------------------------------------------------------
(* The submission sequencer *)

ErrorMessages == {MsgSpam, MsgMissing, MsgBadEmail, MsgBadPhone, MsgPastDate}

InputValid == FirstViolation = "none" /\ ~DateViolated

StatusEmpty == statusText = "" /\ statusClass = {}

\* C6: a submit of a valid input shows the sending status in the same step
\* and starts the submission timer with the fixed delay; when that timer
\* fires the success status is shown and the fields are cleared; every valid
\* submit gets there, and the failure status is never shown.
C6_ValidSubmitReachesSent ==
    /\ [][(handleFormSubmit /\ InputValid) => lastEvent' = "submitValid"]_vars
    /\ [](lastEvent = "submitValid" =>
            /\ statusText = MsgSending /\ statusClass = {"success"}
            /\ submitTimers # <<>>
            /\ submitTimers[Len(submitTimers)] = Ticks(formSubmitDelay))
    /\ [](lastEvent = "sent" =>
            /\ statusText = MsgSent /\ statusClass = {"success"}
            /\ fields = EmptyFields)
    /\ [](statusText # MsgFailed)
    /\ (lastEvent = "submitValid") ~> (lastEvent = "sent")

\* Sent: the success status is up and the form is empty
C6_Witness ==
    /\ lastEvent = "sent"
    /\ statusText = MsgSent
    /\ fields = EmptyFields
    /\ submitTimers = <<>>

\* C7: entering Sent starts the status-clear timer with the fixed display
\* duration; when it fires the status is empty, with neither the success nor
\* the error class; and every success status is followed by an empty status
\* with no help from the user.
C7_SentStatusAutoClears ==
    /\ [](lastEvent = "sent" =>
            /\ clearTimers # <<>>
            /\ clearTimers[Len(clearTimers)] = Ticks(statusClearDelay))
    /\ [](lastEvent = "statusCleared" => StatusEmpty)
    /\ (statusText = MsgSent) ~> StatusEmpty

\* the status-clear timer has fired after a Sent
C7_Witness ==
    /\ lastEvent = "statusCleared"
    /\ StatusEmpty
    /\ fields = EmptyFields
    /\ clearTimers = <<>>

\* C8: a submit of an invalid input shows an error status in the same step,
\* starts no timer and leaves the fields as they are; an edit starts the
\* quiet period, and when the quiet period ends with an error status still
\* shown, the status is cleared.
C8_InvalidSubmitShowsErrorUntilEdit ==
    /\ [][(handleFormSubmit /\ ~InputValid) =>
            /\ lastEvent' = "submitInvalid"
            /\ statusText' \in ErrorMessages /\ statusClass' = {"error"}
            /\ submitTimers' = submitTimers /\ clearTimers' = clearTimers
            /\ debounceTimer' = debounceTimer
            /\ fields' = fields /\ honeypot' = honeypot]_vars
    /\ [](lastEvent = "input" => debounceTimer = Ticks(inputDebounceWait))
    /\ [][("error" \in statusClass /\ lastEvent' \in {"inputQuiet", "errorCleared"}) =>
            (debounceTimer = 0 /\ statusText' = "" /\ statusClass' = {})]_vars
    /\ ("error" \in statusClass /\ debounceTimer \in 0..(Ticks(inputDebounceWait) - 1))
          ~> ("error" \notin statusClass \/ debounceTimer = Ticks(inputDebounceWait))

\* the quiet period after an edit has ended and taken the error status away
C8_Witness ==
    /\ lastEvent = "errorCleared"
    /\ StatusEmpty
    /\ fields # EmptyFields
    /\ debounceTimer = NoTimer

----------------------------------------------------------------------------
(* The carousel pager *)

\* the least number of pages of perPage items that hold `items` items
LeastCover(items, perPage) ==
    CHOOSE k \in 0..items : k * perPage >= items /\ \A j \in 0..(k - 1) : j * perPage < items

CurrentItemsPerPage == IF innerWidth >= desktopWidth THEN 3 ELSE 1

\* C9 (as claimed): the number of page indicators is ceil(itemCount / itemsPerPage)
\* and never less than 1, also for a category without items.
C9_PageCountAtLeastOne ==
    /\ Len(dots) = LeastCover(itemCount[dotsCategory], CurrentItemsPerPage)
    /\ Len(dots) >= 1

\* C9 (amended): the number of page indicators is ceil(itemCount / itemsPerPage)
\* for the category they were built for and the current viewport; it is at
\* least 1 exactly when the category has an item, and 0 for an empty category.
C9_PageCountIsCeiling ==
    /\ Len(dots) = LeastCover(itemCount[dotsCategory], CurrentItemsPerPage)
    /\ Len(dots) >= 1 <=> itemCount[dotsCategory] >= 1
    /\ itemCount[dotsCategory] = 0 => dots = <<>>

\* seven items, three to a page, rebuilt by a resize: three indicators
C9_Witness ==
    /\ lastEvent = "resize"
    /\ itemCount[dotsCategory] = 7
    /\ CurrentItemsPerPage = 3
    /\ Len(dots) = 3

\* the indices (from 0) of the dots that carry the class 'active'
ActiveDots == {i \in 0..(Len(dots) - 1) : dots[i + 1]}

\* C10: an auto-advance step moves the one active indicator from page i to
\* page (i + 1) mod pageCount, so from the last page to page 0; and after
\* pageCount auto-advances in a row the active page is the one the run began on.
C10_AutoAdvanceCycles ==
    /\ [][lastEvent' = "autoScroll" =>
            \E i \in 0..(Len(dots) - 1) :
                /\ ActiveDots = {i}
                /\ Len(dots') = Len(dots)
                /\ ActiveDots' = {(i + 1) % Len(dots)}
                /\ i = Len(dots) - 1 => ActiveDots' = {0}]_vars
    /\ [](autoRun.len = Len(dots) /\ Len(dots) > 0 => ActiveDots = {autoRun.start})

\* a full cycle of at least three pages that began on a page other than 0
C10_Witness ==
    /\ lastEvent = "autoScroll"
    /\ Len(dots) >= 3
    /\ autoRun.len = Len(dots)
    /\ autoRun.start = 1
    /\ ActiveDots = {1}

\* the .carousel-category on display: the one without the class 'hidden'
Displayed == CHOOSE c \in CategoryIds : ~catHidden[c]

\* the page the track of category c shows: the k with translateX = -k * (100 / itemsPerPage) percent
\* for the current itemsPerPage, or -1 when the offset is no whole page
TrackPage(c) ==
    IF \E k \in 0..(3 * MaxItems) : trackOffset[c] * CurrentItemsPerPage = -(300 * k)
        THEN CHOOSE k \in 0..(3 * MaxItems) : trackOffset[c] * CurrentItemsPerPage = -(300 * k)
        ELSE -1

\* C11: in every state the page on display has an index in 0..pageCount-1, for
\* the page count of the displayed category under the current itemsPerPage
\* (whenever the category has a page at all); and a resize leaves the
\* carousel on page 0, with as many indicators as the new width gives pages.
C11_PageIndexInRange ==
    /\ itemCount[Displayed] > 0 =>
          /\ TrackPage(Displayed) \in 0..(LeastCover(itemCount[Displayed], CurrentItemsPerPage) - 1)
          /\ ActiveDots \subseteq 0..(LeastCover(itemCount[Displayed], CurrentItemsPerPage) - 1)
    /\ lastEvent = "resize" =>
          /\ Len(dots) = LeastCover(itemCount[Displayed], CurrentItemsPerPage)
          /\ trackOffset[Displayed] = 0
          /\ ActiveDots \subseteq {0}

\* C12: right after a category is selected, that category is the one on
\* display, its track is at offset 0, there are exactly as many indicators as
\* the category has pages at the current width, and the first indicator (when
\* there is one) is the only active one.
C12_CategorySelectResets ==
    lastEvent = "categoryClick" =>
        /\ Displayed = navActive
        /\ \A c \in CategoryIds : catHidden[c] <=> c # navActive
        /\ trackOffset[navActive] = 0
        /\ Len(dots) = LeastCover(itemCount[navActive], CurrentItemsPerPage)
        /\ Len(dots) > 0 => ActiveDots = {0}

\* 'portrait' with seven items selected on a wide window: three indicators, the first active
C12_Witness ==
    /\ lastEvent = "categoryClick"
    /\ navActive = "portrait"
    /\ itemCount["portrait"] = 7
    /\ CurrentItemsPerPage = 3
    /\ Len(dots) = 3
    /\ ActiveDots = {0}
    /\ trackOffset["portrait"] = 0
    /\ trackOffset["wedding"] # 0

\* C13: for every sequence of pointer-enter and pointer-leave events, while
\* the pointer is inside the carousel no auto-advance happens and no
\* auto-scroll interval is left running, and while it is outside an interval
\* is running.
C13_HoverSuspendsAutoAdvance ==
    /\ hovering => lastEvent # "autoScroll"
    /\ hovering => ~loadInterval /\ extraIntervals = 0
    /\ ~hovering => loadInterval \/ extraIntervals > 0

\* -i * (100 / itemsPerPage) percent in thirds of a percent, with itemsPerPage
\* 3 from 768 pixels of width on and 1 below
Translation(i, width) == IF width >= 768 THEN -(i * 100) ELSE -(i * 300)

\* C15: a move to page i (a click on indicator i, or an auto-advance to i)
\* sets the translation of the moved track to -i * (100 / itemsPerPage) percent,
\* itemsPerPage taken from the window width at the moment of the move.
C15_TranslationOfMove ==
    [][lastEvent' \in {"dotClick", "autoScroll"} =>
          \E i \in 0..(Len(dots) - 1) :
              /\ ActiveDots' = {i}
              /\ \E c \in CategoryIds :
                    trackOffset' = [trackOffset EXCEPT ![c] = Translation(i, innerWidth)]]_vars

\* page 2 with one item per page: -200 percent
C15_Witness ==
    /\ lastEvent = "dotClick"
    /\ innerWidth < 768
    /\ ActiveDots = {2}
    /\ trackOffset[dotsCategory] = -600

\* C17: after any sequence of category selections at most one
\* .carousel-category carries the marker 'active', and it is the one on
\* display; and every auto-advance moves the track of the category on display
\* and no other.
C17_AutoAdvanceMovesDisplayed ==
    /\ [](\A c \in CategoryIds : catActive[c] => c = Displayed)
    /\ [](Cardinality({c \in CategoryIds : catActive[c]}) <= 1)
    /\ [][lastEvent' = "autoScroll" =>
            \A c \in CategoryIds : c # Displayed => trackOffset'[c] = trackOffset[c]]_vars

\* C19: after any sequence of indicator clicks, auto-advances, resizes and
\* category selections, the active indicator and the track of the category on
\* display denote the same page: exactly one indicator i is active and the
\* translation is -i * (100 / itemsPerPage) percent for the current width.
C19_IndicatorMatchesTrack ==
    Len(dots) > 0 =>
        \E i \in 0..(Len(dots) - 1) :
            /\ ActiveDots = {i}
            /\ trackOffset[Displayed] = Translation(i, innerWidth)

\* C18: in every interleaving of submits, edits and timers, a timer started
\* by an earlier submission leaves the status of a later submit alone: when a
\* submission timer fires, the status shown is not the error of a later
\* invalid submit (so neither that error nor the input behind it is wiped),
\* and when a status-clear timer fires, the status shown is neither an error
\* nor the sending status of a later submit.
C18_TimersLeaveLaterStatus ==
    [][/\ lastEvent' = "sent" => statusText \notin ErrorMessages
       /\ lastEvent' = "statusCleared" => statusText \notin ErrorMessages \cup {MsgSending}]_vars

\* C14: when init() has returned, a fault thrown by an initializer has been
\* caught and logged, and every initializer that does not itself throw -
\* those listed after the failing one included - has run.
C14_InitFaultIsolated ==
    initPc = InitReturned =>
        /\ faulty # {} => initLog = "Initialization error:"
        /\ \A k \in 1..Len(Initializers) :
              Initializers[k] \notin faulty => Initializers[k] \in initDone

\* C16: func is invoked only when wait has elapsed since the latest call, and
\* then with that call's arguments; a burst of calls, each made while the
\* timeout of the one before is still pending (as every call less than wait
\* after the previous one is), gets exactly one invocation, which comes after
\* its last call and never during the burst; and a pending invocation does
\* come once the calls have stopped.
C16_DebounceRunsOncePerBurst ==
    /\ [][lastEvent' = "debounceRun" =>
            /\ dbQuiet = dbWait
            /\ dbRuns' = Append(dbRuns, dbLastArgs)]_vars
    /\ [](Len(dbRuns) = IF dbTimeout = NoTimer THEN dbBursts ELSE dbBursts - 1)
    /\ [](dbTimeout # NoTimer => dbQuiet + dbTimeout = dbWait)
    /\ (dbTimeout # NoTimer) ~> (dbTimeout = NoTimer)

\* a burst of three calls 300 ms after whose last call func has run, once, with its arguments
C16_Witness ==
    /\ lastEvent = "debounceRun"
    /\ dbWait = Ticks(inputDebounceWait)
    /\ dbCalls = 3
    /\ dbBursts = 1
    /\ dbLastArgs = <<"b">>
    /\ dbRuns = <<(<<"b">>)>>

====
